---------------------------- MODULE Spec2Model ----------------------------
(***************************************************************************)
(* Model of ugen.py: login-name generation (create_login_name) and the     *)
(* record parser (read_input_files).                                       *)
(*                                                                         *)
(* A Python str is a sequence of characters; a character is a one-element  *)
(* string ("a", ":", " ").  The string "ab" is <<"a", "b">>.               *)
(***************************************************************************)
EXTENDS Integers, Sequences, FiniteSets, TLC

VARIABLES
    existing_logins,   \* the set passed to create_login_name / read_input_files
    initial_logins,    \* history: existing_logins as the caller passed it in
    calls,             \* history: one entry per create_login_name call
    combined_records,  \* read_input_files: the list being built
    stderr,            \* diagnostics written to sys.stderr, in order
    consumed,          \* history: per file attempted, what happened to it
    open_files,        \* numbers of the files whose handle is open
    pc                 \* position of read_input_files

vars == <<existing_logins, initial_logins, calls, combined_records, stderr,
          consumed, open_files, pc>>

(***************************************************************************)
(* Bounds of the model.                                                    *)
(***************************************************************************)
MaxCalls == 3      \* create_login_name calls in one behaviour of SpecGen
MaxChain == 9      \* longest run b, b1, .., bN pre-loaded into a registry
MaxFiles == 2      \* paths in the list given to read_input_files
MaxLines == 2      \* lines read in one run of read_input_files, over all files

(***************************************************************************)
(* Python string primitives.                                               *)
(***************************************************************************)
Min(a, b) == IF a < b THEN a ELSE b

\* s[:n]
Prefix(s, n) == SubSeq(s, 1, Min(Len(s), n))

\* str.lower() on one character of the modelled alphabet
LowerChr(c) ==
    CASE c = "A" -> "a"
      [] c = "B" -> "b"
      [] c = "H" -> "h"
      [] c = "M" -> "m"
      [] OTHER   -> c

\* str.lower()
Lower(s) == [i \in 1..Len(s) |-> LowerChr(s[i])]

DigitChars == <<"0", "1", "2", "3", "4", "5", "6", "7", "8", "9">>

\* str(n) for an int n >= 0: its decimal digits
RECURSIVE Str(_)
Str(n) ==
    IF n < 10 THEN <<DigitChars[n + 1]>>
    ELSE Str(n \div 10) \o <<DigitChars[(n % 10) + 1]>>

\* Characters str.strip() removes (those of the modelled alphabet).
IsSpace(c) == c \in {" ", "\t", "\n", "\r"}

RECURSIVE LStrip(_)
LStrip(s) == IF s # <<>> /\ IsSpace(s[1]) THEN LStrip(Tail(s)) ELSE s

RECURSIVE RStrip(_)
RStrip(s) ==
    IF s # <<>> /\ IsSpace(s[Len(s)]) THEN RStrip(SubSeq(s, 1, Len(s) - 1)) ELSE s

\* str.strip()
Strip(s) == LStrip(RStrip(s))

\* str.split(sep) scanning s from character i: `done` are the pieces closed so
\* far, `piece` the one being read
RECURSIVE SplitFrom(_, _, _, _, _)
SplitFrom(s, sep, i, done, piece) ==
    IF i > Len(s) THEN Append(done, piece)
    ELSE IF s[i] = sep THEN SplitFrom(s, sep, i + 1, Append(done, piece), <<>>)
    ELSE SplitFrom(s, sep, i + 1, done, Append(piece, s[i]))

\* str.split(sep) for a one-character sep, no maxsplit: always >= 1 piece
Split(s, sep) == SplitFrom(s, sep, 1, <<>>, <<>>)

\* sep.join(list) for a one-character sep
RECURSIVE Join(_, _)
Join(list, sep) ==
    IF list = <<>> THEN <<>>
    ELSE IF Len(list) = 1 THEN list[1]
    ELSE list[1] \o <<sep>> \o Join(Tail(list), sep)

\* Characters c with c.isdigit(): the decimal digits and, as Python documents,
\* "digits that need special handling, such as the compatibility superscript
\* digits" (here SUPERSCRIPT TWO).
PyDigits == {DigitChars[i] : i \in DOMAIN DigitChars} \cup {"²"}

\* str.isdigit(): at least one character, all of them digits
IsDigit(s) == s # <<>> /\ \A i \in 1..Len(s) : s[i] \in PyDigits

\* list[i] with Python's index from 0
At(list, i) == list[i + 1]

\* list[i:] with Python's index from 0
From(list, i) == SubSeq(list, i + 1, Len(list))

(***************************************************************************)
(* create_login_name                                                       *)
(***************************************************************************)
MaxLoginLen == 8

\* Mutant: the middle initial is left out.
InitialsGivenOnly(given_name, middle_name) == Lower(Prefix(given_name, 1))

\* lines 56-58: the initials
Initials(given_name, middle_name) ==
    LET first == Lower(Prefix(given_name, 1))
    IN  IF middle_name # <<>>
        THEN first \o Lower(Prefix(middle_name, 1))
        ELSE first

\* Mutant: the base name is not cut to 8 characters.
BaseNameUntruncated(given_name, middle_name, family_name) ==
    Lower(Initials(given_name, middle_name) \o family_name)

\* lines 60-61: the base name
BaseName(given_name, middle_name, family_name) ==
    Prefix(Lower(Initials(given_name, middle_name) \o family_name), MaxLoginLen)

\* Mutant: the counter is advanced by two in each pass.
RECURSIVE CollisionLoopByTwo(_, _, _, _)
CollisionLoopByTwo(username, counter, base_name, logins) ==
    IF username \in logins
    THEN CollisionLoopByTwo(base_name \o Str(counter), counter + 2, base_name, logins)
    ELSE [username |-> username, counter |-> counter]

\* lines 63-67: the state (username, counter) the while loop ends in
RECURSIVE CollisionLoop(_, _, _, _)
CollisionLoop(username, counter, base_name, logins) ==
    IF username \in logins
    THEN CollisionLoop(base_name \o Str(counter), counter + 1, base_name, logins)
    ELSE [username |-> username, counter |-> counter]

\* Mutants: the counter starts at 2, at 0.
FindUsernameFromTwo(base_name, logins) == CollisionLoop(base_name, 2, base_name, logins)

FindUsernameFromZero(base_name, logins) == CollisionLoop(base_name, 0, base_name, logins)

\* lines 63-64: the loop entered with username = base_name, counter = 1
FindUsername(base_name, logins) == CollisionLoop(base_name, 1, base_name, logins)

\* Mutant: the set is replaced by the new login.
AddLoginReplacing(logins, username) == {username}

\* Mutant: the login is returned without being added.
AddLoginForgotten(logins, username) == logins

\* line 69: existing_logins.add(username)
AddLogin(logins, username) == logins \cup {username}

\* Mutant: the base name is returned without the collision loop.
create_login_name_unchecked(given_name, middle_name, family_name, logins) ==
    LET base_name == BaseName(given_name, middle_name, family_name)
    IN  [username |-> base_name, counter |-> 1,
         logins |-> AddLogin(logins, base_name)]

\* The whole function: the value returned, the set as it leaves it, and the
\* counter the loop ended with (1: no suffix was appended).
create_login_name(given_name, middle_name, family_name, logins) ==
    LET found == FindUsername(BaseName(given_name, middle_name, family_name), logins)
    IN  [username |-> found.username,
         counter  |-> found.counter,
         logins   |-> AddLogin(logins, found.username)]

\* The history entry of one call.
CallEntry(given_name, middle_name, family_name, logins, r) ==
    [given_name |-> given_name, middle_name |-> middle_name,
     family_name |-> family_name, before |-> logins,
     login |-> r.username, counter |-> r.counter, after |-> r.logins]

(***************************************************************************)
(* Inputs of the generator specification.                                  *)
(***************************************************************************)
sB         == <<"b">>
sB1        == <<"b", "1">>
sHurban    == <<"H", "u", "r", "b", "a", "n">>
sHurbanova == <<"H", "u", "r", "b", "a", "n", "o", "v", "a">>

\* (given_name, middle_name, family_name) arguments of the calls
NameTriples ==
    { << <<>>,    <<>>,    sB >>,          \* "b"
      << <<>>,    <<>>,    sB1 >>,         \* "b1": the base b with suffix 1
      << <<>>,    <<"M">>, sB >>,          \* "mb"
      << <<"A">>, <<>>,    sB >>,          \* "ab"
      << <<"A">>, <<"M">>, sB >>,          \* "amb"
      << <<"A">>, <<>>,    sHurban >>,     \* "ahurban": 7 characters
      << <<"A">>, <<"M">>, sHurban >>,     \* "amhurban": 8 characters
      << <<"A">>, <<"M">>, sHurbanova >> } \* 11 characters, cut to "amhurban"

\* b, b1, .., bn
Chain(b, n) == {b} \cup {b \o Str(i) : i \in 1..n}

SeedBases == { <<"a", "b">>,
               <<"a", "h", "u", "r", "b", "a", "n">>,
               <<"a", "m", "h", "u", "r", "b", "a", "n">> }

\* Registries a caller may pass in: empty, a chain of taken suffixes, a chain
\* with its first suffix free.
InitRegistries ==
    { {} }
    \cup { Chain(b, n) : b \in SeedBases, n \in {0, 1, MaxChain} }
    \cup { Chain(b, 2) \ {b \o Str(1)} : b \in SeedBases }

(***************************************************************************)
(* Specification SpecGen: a caller holding one registry calls              *)
(* create_login_name repeatedly.                                           *)
(***************************************************************************)
InitGen ==
    /\ existing_logins \in InitRegistries
    /\ initial_logins = existing_logins
    /\ calls = <<>>
    /\ combined_records = <<>>
    /\ stderr = <<>>
    /\ consumed = <<>>
    /\ open_files = {}
    /\ pc = "generator"

Generate ==
    /\ pc = "generator"
    /\ Len(calls) < MaxCalls
    /\ \E t \in NameTriples :
          LET r == create_login_name(t[1], t[2], t[3], existing_logins)
          IN  /\ existing_logins' = r.logins
              /\ calls' = Append(calls, CallEntry(t[1], t[2], t[3], existing_logins, r))
    /\ UNCHANGED <<initial_logins, combined_records, stderr, consumed,
                   open_files, pc>>

NextGen == Generate

SpecGen == InitGen /\ [][NextGen]_vars


(***************************************************************************)
(* read_input_files: the body of the line loop                             *)
(***************************************************************************)
\* line 105: parts = [p.strip() for p in line.split(":")]
Parts(line) ==
    LET pieces == Split(line, ":")
    IN  [i \in 1..Len(pieces) |-> Strip(pieces[i])]

\* Mutant: the parts after the fifth are dropped from the department.
FieldsOfFirstFive(parts) ==
    IF Len(parts) = 4
    THEN [middle_name |-> <<>>, surname |-> At(parts, 2),
          department |-> At(parts, 3)]
    ELSE [middle_name |-> At(parts, 2), surname |-> At(parts, 3),
          department |-> At(parts, 4)]

\* lines 115-132: middle_name, surname, department by the number of parts
FieldsOf(parts) ==
    IF Len(parts) = 5
    THEN [middle_name |-> At(parts, 2), surname |-> At(parts, 3),
          department |-> At(parts, 4)]
    ELSE IF Len(parts) = 4
    THEN [middle_name |-> <<>>, surname |-> At(parts, 2),
          department |-> At(parts, 3)]
    ELSE IF Len(parts) > 5
    THEN [middle_name |-> At(parts, 2), surname |-> At(parts, 3),
          department |-> Join(From(parts, 4), ":")]
    ELSE [middle_name |-> <<>>, surname |-> <<>>, department |-> <<>>]

\* line 139: the f-string
OutputLine(user_id, login, given_name, middle_name, surname, department) ==
    Join(<<user_id, login, given_name, middle_name, surname, department>>, ":")

\* lines 100-136: which exit the loop body takes for the line as read
LineVerdict(raw) ==
    LET line == Strip(raw)
    IN  IF line = <<>> THEN "empty"                               \* 101-102
        ELSE IF Len(Parts(line)) < 4 THEN "format"                \* 106-107
        ELSE IF ~IsDigit(At(Parts(line), 0)) THEN "id"            \* 110-112
        ELSE IF Strip(FieldsOf(Parts(line)).surname) = <<>>
             THEN "surname"                                       \* 134-136
        ELSE "record"                                             \* 138-140

\* Mutant: the login is generated before the surname is checked.
CallsGeneratorBeforeSurnameCheck(verdict) == verdict \in {"record", "surname"}

\* line 138 is reached only by a line that passed every check of 100-136
CallsGenerator(verdict) == verdict = "record"

\* Mutant: a record whose id is already in the list is dropped.
AppendRecordUnlessIdSeen(records, output_line) ==
    IF \E k \in DOMAIN records :
           Split(records[k], ":")[1] = Split(output_line, ":")[1]
    THEN records
    ELSE Append(records, output_line)

\* line 140: combined_records.append(output_line)
AppendRecord(records, output_line) == Append(records, output_line)

\* line 111: the warning printed to sys.stderr
Warning(user_id, line) ==
    [kind |-> "Warning", file |-> 0, user_id |-> user_id, line |-> line]

\* line 142: the error written to sys.stderr for file number `file`
Error(file) ==
    [kind |-> "Error", file |-> file, user_id |-> <<>>, line |-> <<>>]

(***************************************************************************)
(* Input lines of the parser specification: fields joined by ':' and ended *)
(* by a newline, as iterating a text file yields them.                     *)
(***************************************************************************)
RawLine(fields) == Join(fields, ":") \o <<"\n">>

InputLines ==
    { RawLine(<< <<" ">> >>),                                         \* blanks only
      RawLine(<< <<"1">>, <<"A">>, sB >>),                            \* 3 parts
      RawLine(<< <<"x">>, <<"A">>, sB, <<"d">> >>),                   \* letter id
      RawLine(<< <<>>, <<"A">>, sB, <<"d">> >>),                      \* empty id
      RawLine(<< <<"²">>, <<"A">>, sB, <<"d">> >>),                   \* superscript id
      RawLine(<< <<"1">>, <<"A">>, sB, <<"d">> >>),                   \* 4 parts
      RawLine(<< <<" ", "2">>, <<" ", "A", " ">>, <<"b", " ">>, <<" ", "d", " ">> >>),
      RawLine(<< <<"1">>, <<"A">>, <<" ">>, <<"d">> >>),              \* 4, blank surname
      RawLine(<< <<"1">>, <<"A">>, <<"M">>, sB, <<"d">> >>),          \* 5 parts
      RawLine(<< <<"1">>, <<"A">>, <<"M">>, sB, <<"d">>, <<" ", "e">> >>),      \* 6
      RawLine(<< <<"1">>, <<"A">>, <<"M">>, <<>>, <<"d">>, <<"e">> >>),   \* 6, no surname
      RawLine(<< <<"4">>, <<"A">>, <<>>, sB, <<"d">>, <<>>, <<"f">> >>) } \* 7 parts

(***************************************************************************)
(* Specification Spec: one run of read_input_files(files, existing_logins) *)
(* called as main does, with an empty set.  The list of paths and the      *)
(* contents of the files are chosen as the run meets them.                 *)
(***************************************************************************)
LinesRead ==
    LET RECURSIVE Sum(_)
        Sum(k) == IF k = 0 THEN 0 ELSE Len(consumed[k].lines) + Sum(k - 1)
    IN  Sum(Len(consumed))

\* The entry of `consumed` for the file being read: its last one.
Current == Len(consumed)

\* The file being read is closed with `status`; records_at_close is the length
\* of combined_records at that moment.
SetStatus(status) ==
    [consumed EXCEPT ![Current].status = status,
                     ![Current].records_at_close = Len(combined_records)]

\* The entry of a file as the loop reaches it.
FileEntry(status) ==
    [status |-> status, lines |-> <<>>,
     records_at_open |-> Len(combined_records),
     records_at_close |-> Len(combined_records)]

AddLine(raw, produced) ==
    [consumed EXCEPT ![Current].lines =
        Append(@, [text |-> raw, produced |-> produced])]

\* What open() and the iteration over the file raise in the model.
FailureKinds ==
    {"FileNotFoundError", "PermissionError", "UnicodeDecodeError", "OSError",
     "Exception"}

\* Classes derived from Exception (KeyboardInterrupt and SystemExit are not).
ExceptionClasses ==
    {"Exception", "OSError", "FileNotFoundError", "PermissionError",
     "UnicodeDecodeError", "ValueError"}

\* Mutant: only a missing file is caught.
CaughtFileNotFoundOnly(exc) == exc = "FileNotFoundError"

\* line 141: except Exception
Caught(exc) == exc \in ExceptionClasses

\* line 98: open() returns the handle of file number f
OpenHandle(handles, f) == handles \cup {f}

\* line 98: the with block is left and closes the handle
CloseHandle(handles, f) == handles \ {f}

\* Mutant: the handle is closed only when the loop over the lines ends.
CloseOnExceptionSkipped(handles, f) == handles

\* line 98: the with block is left by an exception
CloseOnException(handles, f) == CloseHandle(handles, f)

\* main, line 167, and line 95
Init ==
    /\ existing_logins = {}
    /\ initial_logins = existing_logins
    /\ calls = <<>>
    /\ combined_records = <<>>
    /\ stderr = <<>>
    /\ consumed = <<>>
    /\ open_files = {}
    /\ pc = "next_file"

\* lines 96-98: the next path of the list is opened
OpenFile ==
    /\ pc = "next_file"
    /\ Len(consumed) < MaxFiles
    /\ consumed' = Append(consumed, FileEntry("open"))
    /\ open_files' = OpenHandle(open_files, Len(consumed) + 1)
    /\ pc' = "reading"
    /\ UNCHANGED <<existing_logins, initial_logins, calls, combined_records, stderr>>

\* lines 98, 141-143: open() raises exc; when the except clause catches it the
\* error is written and the loop goes on, otherwise it leaves the function
OpenFails(exc) ==
    /\ pc = "next_file"
    /\ Len(consumed) < MaxFiles
    /\ consumed' = Append(consumed, FileEntry("open_failed"))
    /\ IF Caught(exc)
       THEN /\ stderr' = Append(stderr, Error(Len(consumed) + 1))
            /\ pc' = "next_file"
       ELSE /\ stderr' = stderr
            /\ pc' = "raised"
    /\ UNCHANGED <<existing_logins, initial_logins, calls, combined_records,
                   open_files>>

\* lines 99-140: one pass of the line loop, for the line `raw` the file yields
ReadLine(raw) ==
    /\ pc = "reading"
    /\ LinesRead < MaxLines
    /\ LET verdict == LineVerdict(raw)
           line    == Strip(raw)
           parts   == Parts(line)
           user_id == At(parts, 0)
           given_name == At(parts, 1)
           f       == FieldsOf(parts)
           r       == create_login_name(given_name, f.middle_name, f.surname,
                                        existing_logins)
       IN  /\ IF CallsGenerator(verdict)
              THEN /\ existing_logins' = r.logins
                   /\ calls' = Append(calls, CallEntry(given_name, f.middle_name,
                                                       f.surname, existing_logins, r))
              ELSE UNCHANGED <<existing_logins, calls>>
           /\ IF verdict = "record"
              THEN /\ combined_records' =
                          AppendRecord(combined_records,
                                       OutputLine(user_id, r.username, given_name,
                                                  f.middle_name, f.surname,
                                                  f.department))
                   /\ consumed' = AddLine(raw, 1)
                   /\ UNCHANGED stderr
              ELSE /\ stderr' = IF verdict = "id"
                                THEN Append(stderr, Warning(user_id, line))
                                ELSE stderr
                   /\ consumed' = AddLine(raw, 0)
                   /\ UNCHANGED combined_records
    /\ UNCHANGED <<initial_logins, open_files, pc>>

\* lines 99, 141-143: reading the next line raises exc (a decode error, an I/O
\* error); the with block closes the file; when the except clause catches exc
\* the error is written and the loop over the files goes on.
\* combined_records is not touched.
ReadFails(exc) ==
    /\ pc = "reading"
    /\ consumed' = SetStatus("read_failed")
    /\ open_files' = CloseOnException(open_files, Current)
    /\ IF Caught(exc)
       THEN /\ stderr' = Append(stderr, Error(Current))
            /\ pc' = "next_file"
       ELSE /\ stderr' = stderr
            /\ pc' = "raised"
    /\ UNCHANGED <<existing_logins, initial_logins, calls, combined_records>>

\* line 99: the file has no more lines; the with block closes it
EndOfFile ==
    /\ pc = "reading"
    /\ consumed' = SetStatus("read")
    /\ open_files' = CloseHandle(open_files, Current)
    /\ pc' = "next_file"
    /\ UNCHANGED <<existing_logins, initial_logins, calls, combined_records, stderr>>

\* lines 96, 145: the list has no more paths
Return ==
    /\ pc = "next_file"
    /\ pc' = "done"
    /\ UNCHANGED <<existing_logins, initial_logins, calls, combined_records,
                   stderr, consumed, open_files>>

Next ==
    \/ OpenFile
    \/ \E exc \in FailureKinds : OpenFails(exc)
    \/ \E raw \in InputLines : ReadLine(raw)
    \/ \E exc \in FailureKinds : ReadFails(exc)
    \/ EndOfFile
    \/ Return

Spec == Init /\ [][Next]_vars

\* The run under the scheduling of a sequential program: it takes its next step
\* as long as it has one.
FairSpec == Spec /\ WF_vars(Next)

(***************************************************************************)
(* Vocabulary of the claims, stated from the specification's words.        *)
(***************************************************************************)
IsPrefixOf(p, s) == Len(p) <= Len(s) /\ SubSeq(s, 1, Len(p)) = p

\* "the first character of given_name (empty when given_name is empty)
\*  followed by the first character of middle_name when it is non-empty"
ClaimInitials(given_name, middle_name) ==
    (IF given_name = <<>> THEN <<>> ELSE <<given_name[1]>>)
    \o (IF middle_name = <<>> THEN <<>> ELSE <<middle_name[1]>>)

\* "the lowercased initials+surname cut to its first 8 characters"
ClaimBase(c) ==
    LET whole == Lower(ClaimInitials(c.given_name, c.middle_name) \o c.family_name)
    IN  [i \in 1..Min(Len(whole), MaxLoginLen) |-> whole[i]]

\* Call i is the first / the second call of the behaviour with its base string.
EarlierSameBase(i) == {h \in 1..(i - 1) : ClaimBase(calls[h]) = ClaimBase(calls[i])}

\* The calls are made on one registry: each call starts from the set the
\* previous one left, and the last one left the current set.
OneRegistry ==
    \A i \in DOMAIN calls :
        /\ calls[i].before = (IF i = 1 THEN initial_logins ELSE calls[i - 1].after)
        /\ calls[i].after = (IF i = Len(calls) THEN existing_logins
                                               ELSE calls[i + 1].before)

(***************************************************************************)
(* C1: across any sequence of create_login_name calls on one registry,     *)
(* whatever it held at first, each returned login was not in the registry  *)
(* right before its call and is in it right after; so no two returned      *)
(* logins are equal and none equals an entry that was there at first.      *)
(***************************************************************************)
C1_FreshAndUnique ==
    /\ OneRegistry
    /\ \A i \in DOMAIN calls :
          /\ calls[i].login \notin calls[i].before
          /\ calls[i].login \in calls[i].after
          /\ calls[i].login \notin initial_logins
    /\ \A i, j \in DOMAIN calls : i # j => calls[i].login # calls[j].login

\* Two calls with the same names on a registry that already held their base.
C1_Witness ==
    \E i, j \in DOMAIN calls :
        /\ i < j
        /\ ClaimBase(calls[i]) = ClaimBase(calls[j])
        /\ ClaimBase(calls[i]) \in initial_logins
        /\ calls[i].counter > 1
        /\ calls[j].counter > calls[i].counter

(***************************************************************************)
(* C4 as stated: the first two calls with the same base string b return b  *)
(* and b+"1", whatever calls with other base strings came before or        *)
(* between them (registry empty at first, as in a run).                    *)
(***************************************************************************)
C4_Original ==
    initial_logins = {} =>
        \A i, j \in DOMAIN calls :
            (i < j /\ EarlierSameBase(i) = {} /\ EarlierSameBase(j) = {i}) =>
                /\ calls[i].login = ClaimBase(calls[i])
                /\ calls[j].login = ClaimBase(calls[j]) \o Str(1)

(***************************************************************************)
(* C4 as amended: two calls with the same base string b return distinct    *)
(* logins; the first returns b when b was not in the registry before it,   *)
(* and the second returns b+"1" when b+"1" was not in the registry before  *)
(* it.                                                                     *)
(***************************************************************************)
C4_SameBaseTwice ==
    \A i, j \in DOMAIN calls :
        (i < j /\ ClaimBase(calls[i]) = ClaimBase(calls[j])) =>
            LET b == ClaimBase(calls[i])
            IN  /\ calls[i].login # calls[j].login
                /\ b \notin calls[i].before => calls[i].login = b
                /\ (b \o Str(1)) \notin calls[j].before
                      => calls[j].login = b \o Str(1)

\* b, then a call with another base string, then b again: b and b+"1".
C4_Witness ==
    /\ initial_logins = {}
    /\ Len(calls) >= 3
    /\ ClaimBase(calls[1]) = ClaimBase(calls[3])
    /\ ClaimBase(calls[2]) # ClaimBase(calls[1])
    /\ calls[1].login = ClaimBase(calls[1])
    /\ calls[3].login = ClaimBase(calls[1]) \o Str(1)

(***************************************************************************)
(* C8: for a non-empty surname and any registry, the returned login starts *)
(* with the lowercased initials, suffixed or not.                          *)
(***************************************************************************)
C8_StartsWithInitials ==
    \A i \in DOMAIN calls :
        calls[i].family_name # <<>> =>
            IsPrefixOf(Lower(ClaimInitials(calls[i].given_name, calls[i].middle_name)),
                       calls[i].login)

\* A suffixed login of a call with both initials, and an unsuffixed one.
C8_Witness ==
    /\ \E i \in DOMAIN calls :
          /\ calls[i].given_name # <<>> /\ calls[i].middle_name # <<>>
          /\ calls[i].counter > 1
          /\ IsPrefixOf(<<"a", "m">>, calls[i].login)
    /\ \E i \in DOMAIN calls :
          /\ calls[i].given_name = <<>> /\ calls[i].middle_name # <<>>
          /\ calls[i].counter = 1

(***************************************************************************)
(* C9: truncation law.  When initials+surname has more than 8 characters   *)
(* and the base is not in the registry, the login has exactly 8; a login   *)
(* returned without a collision suffix is the base and has at most 8.      *)
(***************************************************************************)
C9_Truncation ==
    \A i \in DOMAIN calls :
        LET c == calls[i]
            whole == ClaimInitials(c.given_name, c.middle_name) \o c.family_name
        IN  /\ (Len(whole) > MaxLoginLen /\ ClaimBase(c) \notin c.before)
                  => Len(c.login) = MaxLoginLen
            /\ c.counter = 1 => (c.login = ClaimBase(c) /\ Len(c.login) <= MaxLoginLen)
            /\ ClaimBase(c) \notin c.before => c.counter = 1

\* An 11-character initials+surname cut to 8, and a short one left whole.
C9_Witness ==
    /\ \E i \in DOMAIN calls :
          /\ Len(ClaimInitials(calls[i].given_name, calls[i].middle_name)
                   \o calls[i].family_name) > MaxLoginLen + 2
          /\ calls[i].counter = 1
          /\ Len(calls[i].login) = MaxLoginLen
    /\ \E i \in DOMAIN calls : calls[i].counter = 1 /\ Len(calls[i].login) < MaxLoginLen

(***************************************************************************)
(* C10: when the base b is in the registry the login is b+str(k) for the   *)
(* smallest k >= 1 with b+str(k) not in the registry, appended to the      *)
(* truncated base without re-truncation.                                   *)
(***************************************************************************)
\* k is the smallest integer >= 1 whose candidate is free in `logins`
SmallestFree(b, k, logins) ==
    /\ k >= 1
    /\ (b \o Str(k)) \notin logins
    /\ \A h \in 1..(k - 1) : (b \o Str(h)) \in logins

\* The suffix of call c, 0 when none was appended.
ClaimSuffix(c) ==
    IF ClaimBase(c) \notin c.before THEN 0
    ELSE CHOOSE k \in 1..(Cardinality(c.before) + 1) :
             SmallestFree(ClaimBase(c), k, c.before)

C10_SuffixRule ==
    \A i \in DOMAIN calls :
        LET c == calls[i]
            b == ClaimBase(c)
        IN  /\ b \in c.before =>
                  /\ \E k \in 1..(Cardinality(c.before) + 1) :
                        SmallestFree(b, k, c.before)
                  /\ c.login = b \o Str(ClaimSuffix(c))
                  /\ Len(c.login) = Len(b) + Len(Str(ClaimSuffix(c)))
            /\ b \notin c.before => c.login = b

\* C10 as stated: ... and the login is longer than 8 exactly when b has 8
\* characters and a suffix was appended.
C10_Original ==
    /\ C10_SuffixRule
    /\ \A i \in DOMAIN calls :
          Len(calls[i].login) > MaxLoginLen
              <=> (Len(ClaimBase(calls[i])) = MaxLoginLen
                     /\ ClaimBase(calls[i]) \in calls[i].before)

\* C10 as amended: ... and the login is longer than 8 exactly when a suffix
\* was appended and len(b) plus the number of digits of k exceeds 8 (always
\* so when b has 8 characters).
C10_Amended ==
    /\ C10_SuffixRule
    /\ \A i \in DOMAIN calls :
          LET c == calls[i]
              b == ClaimBase(c)
          IN  /\ Len(c.login) > MaxLoginLen
                    <=> (b \in c.before
                           /\ Len(b) + Len(Str(ClaimSuffix(c))) > MaxLoginLen)
              /\ (Len(b) = MaxLoginLen /\ b \in c.before)
                    => Len(c.login) > MaxLoginLen

\* A suffix k >= 2 on an 8-character base (9 characters), with k-1 taken;
\* and a one-digit suffix on a shorter base that stays within 8.
C10_Witness ==
    /\ \E i \in DOMAIN calls :
          /\ Len(ClaimBase(calls[i])) = MaxLoginLen
          /\ calls[i].counter = 3
          /\ Len(calls[i].login) = MaxLoginLen + 1
    /\ \E i \in DOMAIN calls :
          /\ Len(ClaimBase(calls[i])) < MaxLoginLen
          /\ calls[i].counter = 2
          /\ Len(calls[i].login) <= MaxLoginLen


(***************************************************************************)
(* Vocabulary of the claims about read_input_files.                        *)
(***************************************************************************)
\* The lines read so far, in file-list order and then line order, each with
\* the number of its file.
RECURSIVE LinesOfFiles(_)
LinesOfFiles(n) ==
    IF n = 0 THEN <<>>
    ELSE LinesOfFiles(n - 1)
         \o [k \in 1..Len(consumed[n].lines) |->
                [file |-> n, text |-> consumed[n].lines[k].text,
                 produced |-> consumed[n].lines[k].produced]]

AllLines == LinesOfFiles(Len(consumed))

IsAccepted(e) == e.produced = 1

\* The lines for which the loop body went on to build a record.
AcceptedLines == SelectSeq(AllLines, IsAccepted)

\* "the trimmed colon-separated parts" of a line
ClaimParts(raw) ==
    LET pieces == Split(Strip(raw), ":")
    IN  [i \in 1..Len(pieces) |-> Strip(pieces[i])]

\* The fields C5 assigns by the number of parts (4, 5, more than 5).
ClaimFields(raw) ==
    LET p == ClaimParts(raw)
        n == Len(p)
    IN  IF n < 4
        THEN [id |-> p[1], given_name |-> <<>>, middle_name |-> <<>>,
              surname |-> <<>>, department |-> <<>>]
        ELSE [id          |-> p[1],
              given_name  |-> p[2],
              middle_name |-> IF n = 4 THEN <<>> ELSE p[3],
              surname     |-> IF n = 4 THEN p[3] ELSE p[4],
              department  |-> IF n = 4 THEN p[4]
                              ELSE IF n = 5 THEN p[5]
                              ELSE Join(SubSeq(p, 5, n), ":")]

\* The fields and the base string of each input line of the model.
ClaimFieldsOf == [raw \in InputLines |-> ClaimFields(raw)]

ClaimLineBase ==
    [raw \in InputLines |->
        ClaimBase([given_name  |-> ClaimFieldsOf[raw].given_name,
                   middle_name |-> ClaimFieldsOf[raw].middle_name,
                   family_name |-> ClaimFieldsOf[raw].surname])]

\* The fields of the output records, split at ':'; the login is the second.
RecordFields == [k \in DOMAIN combined_records |-> Split(combined_records[k], ":")]

(***************************************************************************)
(* C2: in one run the login fields of all output records are pairwise      *)
(* distinct, across files as within a file: a line of a later file whose   *)
(* base string is a login issued for an earlier file gets another login.   *)
(***************************************************************************)
C2_DistinctAcrossFiles ==
    LET acc    == AcceptedLines
        fields == RecordFields
    IN  /\ \A i, j \in DOMAIN fields : i # j => fields[i][2] # fields[j][2]
        /\ \A k \in DOMAIN fields : fields[k][2] \in existing_logins
        /\ Len(acc) = Len(fields)
        /\ \A i, j \in DOMAIN fields :
              (i < j /\ acc[i].file < acc[j].file
                     /\ ClaimLineBase[acc[j].text] = fields[i][2])
                => fields[j][2] # ClaimLineBase[acc[j].text]

\* Two files, one accepted line each, with the same base string.
C2_Witness ==
    LET acc    == AcceptedLines
        fields == RecordFields
    IN  /\ Len(fields) = 2
        /\ Len(acc) = 2
        /\ acc[1].file = 1 /\ acc[2].file = 2
        /\ ClaimLineBase[acc[1].text] = ClaimLineBase[acc[2].text]
        /\ fields[1][2] = ClaimLineBase[acc[1].text]
        /\ fields[2][2] = ClaimLineBase[acc[1].text] \o Str(1)

(***************************************************************************)
(* C3: a file whose open or read fails, even after some of its lines were  *)
(* read, contributes zero records to the output; a diagnostic is written   *)
(* to the error stream; the later files are still processed.               *)
(***************************************************************************)
IsFailed(f) == consumed[f].status \in {"open_failed", "read_failed"}

\* Records appended between the opening and the closing of file f.
Contribution(f) == consumed[f].records_at_close - consumed[f].records_at_open

\* C3: every failed file contributed no record and has its error on stderr,
\* and after the failure control is back at the loop over the files.
C3_FailedFileNoRecords ==
    \A f \in DOMAIN consumed :
        IsFailed(f) =>
            /\ Contribution(f) = 0
            /\ \E k \in DOMAIN stderr : stderr[k] = Error(f)
            /\ f = Len(consumed) => pc \in {"next_file", "done"}

DecimalDigits == {"0", "1", "2", "3", "4", "5", "6", "7", "8", "9"}

ClaimAccepts(raw) ==
    /\ Strip(raw) # <<>>
    /\ Len(ClaimParts(raw)) >= 4
    /\ ClaimFieldsOf[raw].id # <<>>
    /\ \A i \in 1..Len(ClaimFieldsOf[raw].id) : ClaimFieldsOf[raw].id[i] \in DecimalDigits
    /\ ClaimFieldsOf[raw].surname # <<>>

\* C6: the lines read that yielded a record are exactly those C6 describes.
C6_AcceptedIff ==
    LET all == AllLines
    IN  /\ \A k \in DOMAIN all : IsAccepted(all[k]) <=> ClaimAccepts(all[k].text)
        /\ Len(combined_records) = Len(SelectSeq(all, IsAccepted))

(***************************************************************************)
(* C7: the list holds exactly one record per accepted line, in file-list   *)
(* order and then line order; nothing is sorted, merged or dropped by id:  *)
(* two accepted lines with the same id each have their record.             *)
(***************************************************************************)
C7_OneRecordPerAcceptedLine ==
    LET acc    == AcceptedLines
        fields == RecordFields
    IN  /\ Len(fields) = Len(acc)
        /\ \A k \in DOMAIN fields :
              /\ fields[k][1] = ClaimFieldsOf[acc[k].text].id
              /\ fields[k][3] = ClaimFieldsOf[acc[k].text].given_name
              /\ fields[k][5] = ClaimFieldsOf[acc[k].text].surname
        /\ \A f \in DOMAIN consumed :
              consumed[f].status # "open" =>
                  Contribution(f) = Len(SelectSeq(consumed[f].lines, IsAccepted))

\* Two accepted lines with the same id, in different files, the second with
\* a middle name: two records, in that order.
C7_Witness ==
    LET acc    == AcceptedLines
        fields == RecordFields
    IN  /\ Len(fields) = 2
        /\ Len(acc) = 2
        /\ acc[1].file < acc[2].file
        /\ fields[1][1] = fields[2][1]
        /\ fields[1][4] = <<>>
        /\ fields[2][4] # <<>>


(***************************************************************************)
(* C11: at most one input file is open at any time; a file is opened,      *)
(* consumed and closed before the next one is opened; it is closed on      *)
(* every way out of its processing, an error while reading included; no    *)
(* file is open when read_input_files returns.                             *)
(***************************************************************************)
C11_OneFileOpen ==
    /\ Cardinality(open_files) <= 1
    /\ pc = "reading" => open_files = {Current}
    /\ pc # "reading" => open_files = {}
    /\ \A f \in 1..Len(consumed) :
          consumed[f].status # "open" => f \notin open_files

\* The second file is open after reading the first one failed part-way.
C11_Witness ==
    /\ Len(consumed) = 2
    /\ consumed[1].status = "read_failed"
    /\ Len(consumed[1].lines) > 0
    /\ open_files = {2}


(***************************************************************************)
(* C12: read_input_files always returns normally with a list: no malformed *)
(* line and no file failure propagates an exception to the caller, and     *)
(* when every input file fails or contains no accepted line the result is  *)
(* the empty sequence.                                                     *)
(***************************************************************************)
HasAcceptedLine(f) == \E i \in 1..Len(consumed[f].lines) : IsAccepted(consumed[f].lines[i])

C12_ReturnsNormally ==
    /\ pc # "raised"
    /\ pc = "done" =>
          ((\A f \in 1..Len(consumed) : IsFailed(f) \/ ~HasAcceptedLine(f))
              => combined_records = <<>>)


(***************************************************************************)
(* C13: the registry only grows: each call of the generator inserts        *)
(* exactly the login it returns and removes nothing, so after every prefix *)
(* of a run started with an empty registry the registry is the set of the  *)
(* login fields of the records produced so far, and has as many elements   *)
(* as there are records.                                                   *)
(***************************************************************************)
C13_RegistryIsLoginsOfRecords ==
    LET fields == RecordFields
    IN  /\ initial_logins = {}
        /\ OneRegistry
        /\ \A i \in DOMAIN calls :
              calls[i].after = calls[i].before \cup {calls[i].login}
        /\ existing_logins = {fields[k][2] : k \in DOMAIN fields}
        /\ Cardinality(existing_logins) = Len(combined_records)

\* Two records of two files, the second with a suffixed login: the registry
\* holds both logins.
C13_Witness ==
    LET fields == RecordFields
    IN  /\ Len(fields) = 2
        /\ Len(consumed) = 2
        /\ consumed[1].status = "read"
        /\ calls[2].counter > 1
        /\ calls[2].before = {fields[1][2]}
        /\ existing_logins = {fields[1][2], fields[2][2]}
        /\ Cardinality(existing_logins) = 2


(***************************************************************************)
(* C14: a discarded line (blank, fewer than 4 parts, non-digit id, empty   *)
(* surname) and a file that fails to open leave the login registry and the *)
(* output sequence unchanged: the generator is not called for them, so the *)
(* registry an accepted line meets holds only the logins of the accepted   *)
(* lines before it, and a discarded line takes no base string or suffix    *)
(* from a later accepted line.                                             *)
(***************************************************************************)
\* The four ways a line is discarded, and the way each line of the model goes.
DiscardVerdicts == {"empty", "format", "id", "surname"}

LineVerdictOf == [raw \in InputLines |-> LineVerdict(raw)]

\* This step consumed one more line of the current file, a discarded one.
DiscardedLineStep ==
    /\ pc = "reading"
    /\ Len(consumed') = Len(consumed)
    /\ Len(consumed'[Current].lines) = Len(consumed[Current].lines) + 1
    /\ LET lines == consumed'[Current].lines
       IN  LineVerdictOf[lines[Len(lines)].text] \in DiscardVerdicts

\* This step met a file that could not be opened.
OpenFailedStep ==
    /\ Len(consumed') = Len(consumed) + 1
    /\ consumed'[Len(consumed')].status = "open_failed"

\* The generator was called once per accepted line, on the logins of the
\* records before it.
CallsAreAcceptedLines ==
    LET fields == RecordFields
    IN  /\ Len(calls) = Len(AcceptedLines)
        /\ Len(calls) = Len(fields)
        /\ \A k \in DOMAIN calls :
              /\ calls[k].before = {fields[j][2] : j \in 1..(k - 1)}
              /\ calls[k].login = fields[k][2]

C14_DiscardedLeavesUnchanged ==
    /\ [][(DiscardedLineStep \/ OpenFailedStep)
             => UNCHANGED <<existing_logins, combined_records, calls>>]_vars
    /\ []CallsAreAcceptedLines

\* After a file that failed to open, a line with a letter id and the base
\* string "ab" was discarded, and the next line, accepted, got the login "ab".
C14_Witness ==
    /\ Len(consumed) = 2
    /\ consumed[1].status = "open_failed"
    /\ Len(consumed[2].lines) = 2
    /\ LET first  == consumed[2].lines[1]
           second == consumed[2].lines[2]
       IN  /\ LineVerdictOf[first.text] = "id"
           /\ first.produced = 0
           /\ ClaimLineBase[first.text] = <<"a", "b">>
           /\ second.produced = 1
           /\ Len(calls) = 1
           /\ calls[1].before = {}
           /\ calls[1].login = <<"a", "b">>
    /\ Len(combined_records) = 1
    /\ existing_logins = {<<"a", "b">>}


(***************************************************************************)
(* C15: for every finite registry the collision loop of create_login_name  *)
(* terminates, and the suffix k it appends satisfies                       *)
(* 1 <= k <= number of entries of the registry before the call;            *)
(* read_input_files therefore terminates on every finite list of finite    *)
(* files.                                                                  *)
(***************************************************************************)
\* The passes the loop of call c made: the counter is advanced once per pass,
\* after the suffix was taken from it.
LoopPasses(c) == c.counter - 1

C15_SuffixBounded ==
    \A i \in DOMAIN calls :
        LET c == calls[i]
            k == LoopPasses(c)
        IN  /\ 0 <= k
            /\ k <= Cardinality(c.before)
            /\ k = 0 <=> c.login = ClaimBase(c)
            /\ k >= 1 => c.login = ClaimBase(c) \o Str(k)

\* The bound is met: every entry of the registry was a candidate of the loop;
\* and in another call the loop stopped before the registry was exhausted.
C15_Witness ==
    /\ \E i \in DOMAIN calls :
          /\ LoopPasses(calls[i]) = Cardinality(calls[i].before)
          /\ LoopPasses(calls[i]) = MaxChain + 1
    /\ \E i \in DOMAIN calls :
          /\ LoopPasses(calls[i]) >= 1
          /\ LoopPasses(calls[i]) < Cardinality(calls[i].before)

\* The run of read_input_files reaches its return statement.
RunTerminates == <>(pc = "done")

=============================================================================
